---- MODULE Spec2Model ----
(***************************************************************************)
(* Student roster manager: the useStudentManager hook (in-memory           *)
(* collection, add / update / delete / deleteMultiple / import), the       *)
(* field validators it calls and the localStorage persistence gateway      *)
(* (saveToFile / readFromFile) driven by the hook's auto-save effect.      *)
(*                                                                         *)
(* Strings are sequences of one-character strings, so that toUpperCase,    *)
(* toLowerCase, trim and the regular expressions are computed character    *)
(* by character.  Numbers are held in hundredths (7 is 700, 3.5 is 350),   *)
(* with NaN as a value of its own.                                         *)
(***************************************************************************)
EXTENDS Integers, Sequences, FiniteSets, TLC

\* ------------------------------------------------------------------ bounds
MaxStudents == 2
MaxIds == 2
MaxCalls == 2

\* ------------------------------------------------------- string primitives
UpperLetters == {"A", "B", "I"}
LowerLetters == {"a", "b", "i"}
Letters == UpperLetters \cup LowerLetters
Digits == {"1", "2"}
Whitespace == {" "}
DotlessI == "dotless-i"

\* String.prototype.toUpperCase, one character
UpperChar(c) ==
  CASE c = "a" -> "A"
    [] c = "b" -> "B"
    [] c = "i" -> "I"
    [] c = DotlessI -> "I"
    [] OTHER -> c

\* String.prototype.toLowerCase, one character
LowerChar(c) ==
  CASE c = "A" -> "a"
    [] c = "B" -> "b"
    [] c = "I" -> "i"
    [] OTHER -> c

toUpperCase(s) == [i \in 1..Len(s) |-> UpperChar(s[i])]

toLowerCase(s) == [i \in 1..Len(s) |-> LowerChar(s[i])]

\* s.trim() === ""
TrimIsEmpty(s) == \A i \in 1..Len(s) : s[i] \in Whitespace

\* !s || s.trim() === ""   (s a string)
Blank(s) == Len(s) = 0 \/ TrimIsEmpty(s)

\* ------------------------------------------------------------------ numbers
Scale == 100
NaN == 0 - 1000000

isNaN(x) == x = NaN

NumberIsInteger(x) == x # NaN /\ x % Scale = 0

\* --------------------------------------------------------------- validation
NimMaxLen == 50
NamaMinLen == 2
NamaMaxLen == 100
JurusanMinLen == 2
JurusanMaxLen == 50
SemesterMin == 1
SemesterMax == 14
IpkMin == 0
IpkMax == 4

\* REGEX_PATTERNS.NAMA  /^[a-zA-Z\s]{2,100}$/
RegexNama(s) ==
  /\ Len(s) >= NamaMinLen
  /\ Len(s) <= NamaMaxLen
  /\ \A i \in 1..Len(s) : s[i] \in Letters \cup Whitespace

\* REGEX_PATTERNS.JURUSAN  /^[a-zA-Z\s]{2,50}$/
RegexJurusan(s) ==
  /\ Len(s) >= JurusanMinLen
  /\ Len(s) <= JurusanMaxLen
  /\ \A i \in 1..Len(s) : s[i] \in Letters \cup Whitespace

EmailLocalChars == Letters \cup Digits \cup {".", "_", "%", "+", "-"}
EmailDomainChars == Letters \cup Digits \cup {".", "-"}

\* REGEX_PATTERNS.EMAIL  /^[a-zA-Z0-9._%+-]+@[a-zA-Z0-9.-]+\.[a-zA-Z]{2,}$/
RegexEmail(s) ==
  \E at \in 1..Len(s) : \E dot \in 1..Len(s) :
    /\ s[at] = "@"
    /\ s[dot] = "."
    /\ at > 1
    /\ dot > at + 1
    /\ Len(s) - dot >= 2
    /\ \A i \in 1..(at - 1) : s[i] \in EmailLocalChars
    /\ \A i \in (at + 1)..(dot - 1) : s[i] \in EmailDomainChars
    /\ \A i \in (dot + 1)..Len(s) : s[i] \in Letters

\* variant: only the empty string counts as empty
validateNIM_NoTrim(nim) ==
  IF Len(nim) = 0 THEN FALSE
  ELSE IF Len(nim) > NimMaxLen THEN FALSE
  ELSE TRUE

validateNIM(nim) ==
  IF Blank(nim) THEN FALSE
  ELSE IF Len(nim) > NimMaxLen THEN FALSE
  ELSE TRUE

validateNama(nama) ==
  IF Blank(nama) THEN FALSE
  ELSE IF Len(nama) < NamaMinLen THEN FALSE
  ELSE IF Len(nama) > NamaMaxLen THEN FALSE
  ELSE RegexNama(nama)

validateEmail(email) ==
  IF Blank(email) THEN FALSE
  ELSE RegexEmail(email)

validateIPK(ipk) ==
  IF isNaN(ipk) THEN FALSE
  ELSE IF ipk < IpkMin * Scale \/ ipk > IpkMax * Scale THEN FALSE
  ELSE TRUE

validateSemester(semester) ==
  IF ~NumberIsInteger(semester) THEN FALSE
  ELSE IF semester < SemesterMin * Scale \/ semester > SemesterMax * Scale THEN FALSE
  ELSE TRUE

validateJurusan(jurusan) ==
  IF Blank(jurusan) THEN FALSE
  ELSE IF Len(jurusan) < JurusanMinLen THEN FALSE
  ELSE RegexJurusan(jurusan)

\* the keys of validateAllFields(data).errors, in insertion order
ValidationErrors(data) ==
  SelectSeq(<<"nim", "nama", "email", "jurusan", "semester", "ipk">>,
    LAMBDA k :
      CASE k = "nim" -> ~validateNIM(data.nim)
        [] k = "nama" -> ~validateNama(data.nama)
        [] k = "email" -> ~validateEmail(data.email)
        [] k = "jurusan" -> ~validateJurusan(data.jurusan)
        [] k = "semester" -> ~validateSemester(data.semester)
        [] k = "ipk" -> ~validateIPK(data.ipk))

\* validateAllFields(data).isValid
validateAllFields(data) == Len(ValidationErrors(data)) = 0

\* ------------------------------------------------------------ record model
FieldNames == {"id", "nim", "nama", "email", "jurusan", "semester", "ipk", "tanggalMasuk"}

\* { ...a, ...b } : the keys of both, b's value where b has the key
Spread(a, b) ==
  [k \in (DOMAIN a) \cup (DOMAIN b) |-> IF k \in DOMAIN b THEN b[k] ELSE a[k]]

\* new Student(data).toJSON() : the eight fields of IStudent, copied
StudentToJSON(data) ==
  [id |-> data.id, nim |-> data.nim, nama |-> data.nama, email |-> data.email,
   jurusan |-> data.jurusan, semester |-> data.semester, ipk |-> data.ipk,
   tanggalMasuk |-> data.tanggalMasuk]

\* ------------------------------------------------------ persistence gateway
\* A localStorage value: kind "null" is getItem's null, "empty" the empty
\* string, "garbage" text JSON.parse rejects, "baddata" JSON without an array
\* under data, "jsonnull" the text null, "json" a document with version,
\* timestamp, count and data.
NullTime == 0 - 1
NoDoc == [version |-> "", timestamp |-> NullTime, count |-> 0, data |-> <<>>]
RawNull == [kind |-> "null", doc |-> NoDoc]
RawEmpty == [kind |-> "empty", doc |-> NoDoc]
RawGarbage == [kind |-> "garbage", doc |-> NoDoc]
RawBadData == [kind |-> "baddata", doc |-> NoDoc]
RawJsonNull == [kind |-> "jsonnull", doc |-> NoDoc]

\* if (raw) ...
Truthy(raw) == raw.kind \notin {"null", "empty"}

JsonNull == NaN - 1

\* JSON.stringify of a number: NaN is written as null
JsonNumber(x) == IF isNaN(x) THEN JsonNull ELSE x

JsonRecord(r) ==
  [k \in DOMAIN r |-> IF k \in {"semester", "ipk"} THEN JsonNumber(r[k]) ELSE r[k]]

\* JSON.stringify(dataToSave)
JSONstringify(doc) ==
  [kind |-> "json",
   doc |-> [version |-> doc.version, timestamp |-> doc.timestamp,
            count |-> doc.count, data |-> [i \in 1..Len(doc.data) |-> JsonRecord(doc.data[i])]]]

\* fault names the setItem call the store rejects ("none": both accepted)
SaveFaults(store) ==
  IF Truthy(store.cur) THEN {"none", "backup", "current"} ELSE {"none", "current"}

\* variant: the previous contents are not copied to the backup slot
saveToFile_NoBackup(store, students, timestamp, fault) ==
  LET dataToSave == [version |-> "1.0", timestamp |-> timestamp,
                     count |-> Len(students), data |-> students]
  IN  IF fault # "none"
        THEN [store |-> store, success |-> FALSE, timestamp |-> NullTime]
      ELSE [store |-> [store EXCEPT !.cur = JSONstringify(dataToSave)],
            success |-> TRUE, timestamp |-> timestamp]

\* variant: the new snapshot is written before the backup copy
saveToFile_SnapshotFirst(store, students, timestamp, fault) ==
  LET dataToSave == [version |-> "1.0", timestamp |-> timestamp,
                     count |-> Len(students), data |-> students]
      existingData == store.cur
      written == [store EXCEPT !.cur = JSONstringify(dataToSave)]
  IN  IF fault = "current"
        THEN [store |-> store, success |-> FALSE, timestamp |-> NullTime]
      ELSE IF Truthy(existingData) /\ fault = "backup"
        THEN [store |-> written, success |-> FALSE, timestamp |-> NullTime]
      ELSE [store |-> IF Truthy(existingData)
                        THEN [written EXCEPT !.bak = existingData]
                        ELSE written,
            success |-> TRUE, timestamp |-> timestamp]

\* saveToFile(students): the store afterwards and the result it returns
saveToFile(store, students, timestamp, fault) ==
  LET dataToSave == [version |-> "1.0", timestamp |-> timestamp,
                     count |-> Len(students), data |-> students]
      existingData == store.cur
      backedUp == IF Truthy(existingData) /\ fault # "backup"
                    THEN [store EXCEPT !.bak = existingData]
                    ELSE store
  IN  IF Truthy(existingData) /\ fault = "backup"
        THEN [store |-> store, success |-> FALSE, timestamp |-> NullTime]
      ELSE IF fault = "current"
        THEN [store |-> backedUp, success |-> FALSE, timestamp |-> NullTime]
      ELSE [store |-> [backedUp EXCEPT !.cur = JSONstringify(dataToSave)],
            success |-> TRUE, timestamp |-> timestamp]

\* variant: the backup slot is read
readFromFile_FromBackup(store) ==
  LET rawData == store.bak
  IN  IF rawData.kind = "json"
        THEN [success |-> TRUE, error |-> "none", data |-> rawData.doc.data,
              timestamp |-> rawData.doc.timestamp]
      ELSE [success |-> TRUE, error |-> "none", data |-> <<>>, timestamp |-> NullTime]

\* variant: the shape of the parsed value is not checked
readFromFile_NoShapeCheck(store) ==
  LET rawData == store.cur
  IN  IF ~Truthy(rawData)
        THEN [success |-> TRUE, error |-> "none", data |-> <<>>, timestamp |-> NullTime]
      ELSE IF rawData.kind = "garbage"
        THEN [success |-> FALSE, error |-> "syntax", data |-> <<>>, timestamp |-> NullTime]
      ELSE [success |-> TRUE, error |-> "none", data |-> rawData.doc.data,
            timestamp |-> rawData.doc.timestamp]

\* readFromFile()
readFromFile(store) ==
  LET rawData == store.cur
  IN  IF ~Truthy(rawData)
        THEN [success |-> TRUE, error |-> "none", data |-> <<>>, timestamp |-> NullTime]
      ELSE IF rawData.kind = "garbage"
        THEN [success |-> FALSE, error |-> "syntax", data |-> <<>>, timestamp |-> NullTime]
      ELSE IF rawData.kind = "baddata"
        THEN [success |-> FALSE, error |-> "format", data |-> <<>>, timestamp |-> NullTime]
      ELSE IF rawData.kind = "jsonnull"
        THEN [success |-> FALSE, error |-> "type", data |-> <<>>, timestamp |-> NullTime]
      ELSE [success |-> TRUE, error |-> "none", data |-> rawData.doc.data,
            timestamp |-> rawData.doc.timestamp]

\* ------------------------------------------------------------ sample inputs
Str_a1 == <<"a", "1">>
Str_A1 == <<"A", "1">>
Str_b2 == <<"b", "2">>
Str_i == <<"i">>
Str_dotless == <<DotlessI>>
Str_blank == <<" ">>
Str_long == [i \in 1..(NimMaxLen + 1) |-> "1"]
Str_ab == <<"a", "b">>
Str_ba == <<"b", "a">>
Str_mail == <<"a", "@", "b", ".", "a", "b">>
Str_nomail == <<"a", "@", "b">>

\* a form submission with every field valid
ValidData(nim) ==
  [nim |-> nim, nama |-> Str_ab, email |-> Str_mail, jurusan |-> Str_ab,
   semester |-> 7 * Scale, ipk |-> 350, tanggalMasuk |-> "2024-01-01"]

AddInputs ==
  { ValidData(Str_a1), ValidData(Str_A1), ValidData(Str_b2), ValidData(Str_dotless),
    ValidData(Str_blank),
    [ValidData(Str_a1) EXCEPT !.nama = <<"a">>],
    [ValidData(Str_b2) EXCEPT !.semester = 15 * Scale] }

\* Partial<IStudent>: a record over the supplied keys only
UpdateInputs ==
  { <<>>,
    [nama |-> <<>>],
    [nim |-> Str_a1],
    [nim |-> Str_b2],
    [ipk |-> 5 * Scale],
    [tanggalMasuk |-> "2025-02-02"],
    [id |-> 102] }

CallIds == {1, 101}

Foreign(id, nim) == StudentToJSON(Spread(ValidData(nim), [id |-> id]))

\* contents of an imported file's data array
ImportInputs ==
  { <<>>,
    <<Foreign(101, Str_a1), Foreign(102, Str_A1)>>,
    <<[Foreign(101, Str_b2) EXCEPT !.nama = <<"a">>]>> }

\* what the store may hold when the page is opened
InitCur ==
  { RawNull, RawGarbage,
    JSONstringify([version |-> "1.0", timestamp |-> 0, count |-> 1,
                   data |-> <<Foreign(101, Str_A1)>>]) }
InitBak == { RawNull, RawGarbage }

\* -------------------------------------------------------------------- state
VARIABLES
  store,      \* localStorage: cur is STORAGE_KEY, bak is BACKUP_KEY
  students,   \* the students array of the last render (what the callbacks close over)
  queued,     \* the students state with every queued setStudents applied
  isLoading,
  lastSaved,
  dirty,      \* a state update is queued: a render (and its effects) is due
  nextId,     \* the next value crypto.randomUUID() returns
  clock,      \* new Date(): every save reads a later time than the one before
  calls,      \* how many manager calls changed the collection
  last,       \* the last manager call: arguments, result, collection before it
  lastSave    \* the last run of the auto-save effect

vars == <<store, students, queued, isLoading, lastSaved, dirty, nextId, clock, calls, last, lastSave>>

NoCall == [op |-> "none", ok |-> TRUE, err |-> "none", id |-> 0, data |-> <<>>,
           ids |-> {}, before |-> <<>>]
NoSave == [ran |-> FALSE, success |-> FALSE, fault |-> "none",
           timestamp |-> NullTime, prevCur |-> RawNull, after |-> "none"]

Init ==
  /\ store \in [cur : InitCur, bak : InitBak]
  /\ students = <<>>
  /\ queued = <<>>
  /\ isLoading = TRUE
  /\ lastSaved = NullTime
  /\ dirty = FALSE
  /\ nextId = 1
  /\ clock = 0
  /\ calls = 0
  /\ last = NoCall
  /\ lastSave = NoSave

\* ------------------------------------------------------------ hook effects
\* first effect of useStudentManager: load once, on mount
\* variant: the loaded collection is not put into the state
Mount_NoSetStudents ==
  /\ isLoading
  /\ isLoading' = FALSE
  /\ dirty' = TRUE
  /\ UNCHANGED <<store, students, queued, lastSaved, nextId, clock, calls, last, lastSave>>

Mount ==
  /\ isLoading
  /\ LET result == readFromFile(store)
     IN  /\ queued' = IF result.success THEN result.data ELSE queued
         /\ lastSaved' = IF result.success THEN result.timestamp ELSE lastSaved
  /\ isLoading' = FALSE
  /\ dirty' = TRUE
  /\ UNCHANGED <<store, students, nextId, clock, calls, last, lastSave>>

\* variant: a failed save puts the collection of the previous render back
Render_Rollback ==
  /\ dirty
  /\ dirty' = FALSE
  /\ \E fault \in SaveFaults(store) :
       LET result == saveToFile(store, queued, clock, fault)
       IN  /\ store' = result.store
           /\ students' = IF result.success THEN queued ELSE students
           /\ queued' = IF result.success THEN queued ELSE students
           /\ lastSaved' = IF result.success THEN result.timestamp ELSE lastSaved
           /\ lastSave' = [ran |-> TRUE, success |-> result.success,
                           fault |-> fault, timestamp |-> clock,
                           prevCur |-> store.cur, after |-> last.op]
  /\ clock' = clock + 1
  /\ UNCHANGED <<isLoading, nextId, calls, last>>

\* a render commits the queued state; the auto-save effect then runs because
\* students (or isLoading) changed
Render ==
  /\ dirty
  /\ students' = queued
  /\ dirty' = FALSE
  /\ IF ~isLoading /\ Len(queued) >= 0
       THEN \E fault \in SaveFaults(store) :
              LET result == saveToFile(store, queued, clock, fault)
              IN  /\ store' = result.store
                  /\ lastSaved' = IF result.success THEN result.timestamp ELSE lastSaved
                  /\ lastSave' = [ran |-> TRUE, success |-> result.success,
                                  fault |-> fault, timestamp |-> clock,
                                  prevCur |-> store.cur, after |-> last.op]
       ELSE UNCHANGED <<store, lastSaved, lastSave>>
  /\ clock' = clock + 1
  /\ UNCHANGED <<queued, isLoading, nextId, calls, last>>

\* ------------------------------------------------------- collection manager
\* s.nim.toLowerCase() === nim.toLowerCase()
SameNim(a, b) == toLowerCase(a) = toLowerCase(b)

\* a call that threw: nothing is queued, the callback returns false
Fail(op, id, data, err) ==
  /\ last' = [op |-> op, ok |-> FALSE, err |-> err, id |-> id, data |-> data,
              ids |-> {}, before |-> queued]
  /\ UNCHANGED <<store, students, queued, isLoading, lastSaved, dirty, nextId, clock, calls, lastSave>>

\* variant: the nim is stored as typed
NewStudent_KeepCase(data, uuid) ==
  StudentToJSON(Spread(data, [id |-> uuid]))

\* the record addStudent builds
NewStudent(data, uuid) ==
  StudentToJSON(Spread(data, [id |-> uuid, nim |-> toUpperCase(data.nim)]))

\* variant: the nim is compared as typed
AddNimExists_CaseSensitive(data) ==
  \E i \in 1..Len(students) : students[i].nim = data.nim

\* students.some(s => s.nim.toLowerCase() === data.nim.toLowerCase())
AddNimExists(data) ==
  \E i \in 1..Len(students) : SameNim(students[i].nim, data.nim)

addStudent(data) ==
  IF ~validateAllFields(data)
    THEN Fail("add", 0, data, "validation")
  ELSE IF AddNimExists(data)
    THEN Fail("add", 0, data, "uniqueness")
  ELSE
    /\ nextId <= MaxIds
    /\ Len(queued) < MaxStudents
    /\ queued' = Append(queued, NewStudent(data, nextId))
    /\ nextId' = nextId + 1
    /\ dirty' = TRUE
    /\ calls < MaxCalls
    /\ calls' = calls + 1
    /\ last' = [op |-> "add", ok |-> TRUE, err |-> "none", id |-> nextId,
                data |-> data, ids |-> {}, before |-> queued]
    /\ UNCHANGED <<store, students, isLoading, lastSaved, clock, lastSave>>

\* a string-valued key that is supplied and not the empty string
Supplied(data, k) == k \in DOMAIN data /\ Len(data[k]) > 0

\* data.nim || data.nama || data.email || data.jurusan ||
\* data.semester !== undefined || data.ipk !== undefined
UpdateValidates(data) ==
  \/ Supplied(data, "nim")
  \/ Supplied(data, "nama")
  \/ Supplied(data, "email")
  \/ Supplied(data, "jurusan")
  \/ "semester" \in DOMAIN data
  \/ "ipk" \in DOMAIN data

\* students.find(s => s.id === id) found something
Found(id) == \E i \in 1..Len(students) : students[i].id = id

Find(id) ==
  students[CHOOSE i \in 1..Len(students) :
             /\ students[i].id = id
             /\ \A j \in 1..(i - 1) : students[j].id # id]

\* students.some(s => s.id !== id && s.nim.toLowerCase() === data.nim.toLowerCase())
UpdateNimExists(id, data) ==
  \E i \in 1..Len(students) :
    students[i].id # id /\ SameNim(students[i].nim, data.nim)

\* variant: the supplied nim is merged as typed
Merged_KeepCase(s, data) ==
  Spread(Spread(s, data),
         [nim |-> IF Supplied(data, "nim") THEN data.nim ELSE s.nim])

\* { ...s, ...data, nim: data.nim ? data.nim.toUpperCase() : s.nim }
Merged(s, data) ==
  Spread(Spread(s, data),
         [nim |-> IF Supplied(data, "nim") THEN toUpperCase(data.nim) ELSE s.nim])

\* "none" when no check throws, otherwise the error thrown first
UpdateError(id, data) ==
  IF ~UpdateValidates(data) THEN "none"
  ELSE IF ~Found(id) THEN "notfound"
  ELSE IF ~validateAllFields(Spread(Find(id), data)) THEN "validation"
  ELSE IF /\ Supplied(data, "nim")
          /\ data.nim # Find(id).nim
          /\ UpdateNimExists(id, data) THEN "uniqueness"
  ELSE "none"

\* variant: the updated record is moved behind the others
updateStudent_MoveToEnd(id, data) ==
  IF UpdateError(id, data) # "none"
    THEN Fail("update", id, data, UpdateError(id, data))
  ELSE
    /\ queued' = SelectSeq(queued, LAMBDA s : s.id # id)
                   \o [i \in 1..Len(SelectSeq(queued, LAMBDA s : s.id = id)) |->
                         Merged(SelectSeq(queued, LAMBDA s : s.id = id)[i], data)]
    /\ dirty' = TRUE
    /\ calls < MaxCalls
    /\ calls' = calls + 1
    /\ last' = [op |-> "update", ok |-> TRUE, err |-> "none", id |-> id,
                data |-> data, ids |-> {}, before |-> queued]
    /\ UNCHANGED <<store, students, isLoading, lastSaved, nextId, clock, lastSave>>

updateStudent(id, data) ==
  IF UpdateError(id, data) # "none"
    THEN Fail("update", id, data, UpdateError(id, data))
  ELSE
    /\ queued' = [i \in 1..Len(queued) |->
                    IF queued[i].id = id THEN Merged(queued[i], data) ELSE queued[i]]
    /\ dirty' = TRUE
    /\ calls < MaxCalls
    /\ calls' = calls + 1
    /\ last' = [op |-> "update", ok |-> TRUE, err |-> "none", id |-> id,
                data |-> data, ids |-> {}, before |-> queued]
    /\ UNCHANGED <<store, students, isLoading, lastSaved, nextId, clock, lastSave>>

\* variant: no existence check, the filter runs for every id
deleteStudent_NoCheck(id) ==
  /\ queued' = SelectSeq(queued, LAMBDA s : s.id # id)
  /\ dirty' = TRUE
  /\ calls < MaxCalls
  /\ calls' = calls + 1
  /\ last' = [op |-> "delete", ok |-> TRUE, err |-> "none", id |-> id,
              data |-> <<>>, ids |-> {}, before |-> queued]
  /\ UNCHANGED <<store, students, isLoading, lastSaved, nextId, clock, lastSave>>

deleteStudent(id) ==
  IF ~Found(id)
    THEN Fail("delete", id, <<>>, "notfound")
  ELSE
    /\ queued' = SelectSeq(queued, LAMBDA s : s.id # id)
    /\ dirty' = TRUE
    /\ calls < MaxCalls
    /\ calls' = calls + 1
    /\ last' = [op |-> "delete", ok |-> TRUE, err |-> "none", id |-> id,
                data |-> <<>>, ids |-> {}, before |-> queued]
    /\ UNCHANGED <<store, students, isLoading, lastSaved, nextId, clock, lastSave>>

\* variant: the state is set only when a record is removed
deleteMultiple_NoRender(ids) ==
  /\ queued' = SelectSeq(queued, LAMBDA s : s.id \notin ids)
  /\ dirty' = (queued' # queued)
  /\ calls < MaxCalls
  /\ calls' = calls + 1
  /\ last' = [op |-> "deleteMultiple", ok |-> TRUE, err |-> "none", id |-> 0,
              data |-> <<>>, ids |-> ids, before |-> queued]
  /\ UNCHANGED <<store, students, isLoading, lastSaved, nextId, clock, lastSave>>

deleteMultiple(ids) ==
  /\ queued' = SelectSeq(queued, LAMBDA s : s.id \notin ids)
  /\ dirty' = TRUE
  /\ calls < MaxCalls
  /\ calls' = calls + 1
  /\ last' = [op |-> "deleteMultiple", ok |-> TRUE, err |-> "none", id |-> 0,
              data |-> <<>>, ids |-> ids, before |-> queued]
  /\ UNCHANGED <<store, students, isLoading, lastSaved, nextId, clock, lastSave>>

importStudents(data) ==
  /\ queued' = data
  /\ dirty' = TRUE
  /\ calls < MaxCalls
  /\ calls' = calls + 1
  /\ last' = [op |-> "import", ok |-> TRUE, err |-> "none", id |-> 0,
              data |-> data, ids |-> {}, before |-> queued]
  /\ UNCHANGED <<store, students, isLoading, lastSaved, nextId, clock, lastSave>>

\* ------------------------------------------------------------ specification
\* Index.tsx shows the spinner while isLoading, and each of its handlers makes
\* one manager call; the render it queues is committed before the next event.
Idle == ~isLoading /\ ~dirty

Add == Idle /\ \E data \in AddInputs : addStudent(data)

Update == Idle /\ \E id \in CallIds : \E data \in UpdateInputs : updateStudent(id, data)

Delete == Idle /\ \E id \in CallIds : deleteStudent(id)

DeleteMany == Idle /\ \E ids \in SUBSET CallIds : deleteMultiple(ids)

Import == Idle /\ \E data \in ImportInputs : importStudents(data)

Next == Mount \/ Render \/ Add \/ Update \/ Delete \/ DeleteMany \/ Import

Spec == Init /\ [][Next]_vars

\* ------------------------------------------------------------------ helpers
\* the records of a collection that carry the given id
HasId(coll, id) == \E i \in 1..Len(coll) : coll[i].id = id

\* some record of the collection has this nim, ignoring case
EqualIgnoringCase(a, b) == toLowerCase(a) = toLowerCase(b)

HasNim(coll, nim) == \E i \in 1..Len(coll) : EqualIgnoringCase(coll[i].nim, nim)

ValidatedKeys == {"nim", "nama", "email", "jurusan", "semester", "ipk"}

\* the six validated fields of a record
SixFields(r) == [k \in ValidatedKeys |-> r[k]]

\* a render is due for the last call, or the save it triggered has run
SaveTriggered ==
  \/ dirty
  \/ /\ lastSave.ran
     /\ lastSave.after = last.op
     /\ students = queued
     /\ (lastSave.success => store.cur.kind = "json" /\ store.cur.doc.data = queued)

\* ------------------------------------------------------------------ claims

\* C1: in every reachable state no two records of the in-memory collection
\* have nim values that are equal when compared case-insensitively.
C1_NimUnique ==
  \A i, j \in 1..Len(queued) :
    i # j => ~EqualIgnoringCase(queued[i].nim, queued[j].nim)

\* C2: every record of a snapshot that a triggered save has written to the
\* store satisfies all six field constraints.
C2_SavedRecordsValid ==
  (lastSave.ran /\ lastSave.success /\ lastSave.after # "none") =>
    \A i \in 1..Len(store.cur.doc.data) :
      validateAllFields(SixFields(store.cur.doc.data[i]))

\* C3: after update(id, partialData) the id and tanggalMasuk of the target
\* record equal their values before the call, whatever partialData supplies.
C3_UpdateKeepsIdAndDate ==
  (last.op = "update" /\ last.ok) =>
    \A i \in 1..Len(last.before) :
      last.before[i].id = last.id =>
        /\ queued[i].id = last.before[i].id
        /\ queued[i].tanggalMasuk = last.before[i].tanggalMasuk

\* C4 (as stated): add(data) fails with a uniqueness conflict, leaves the
\* collection unchanged and triggers no save whenever an existing record's nim
\* equals data.nim ignoring case.
C4_DuplicateAddIsUniquenessConflict ==
  (last.op = "add" /\ HasNim(last.before, last.data.nim)) =>
    /\ ~last.ok
    /\ last.err = "uniqueness"
    /\ queued = last.before
    /\ ~dirty

\* C4 (amended): add(data) with a nim some existing record has, ignoring case,
\* fails, leaves the collection unchanged and triggers no save; the failure is
\* the uniqueness conflict when data passes field validation and the
\* validation error when it does not.
C4_DuplicateAddFails ==
  (last.op = "add" /\ HasNim(last.before, last.data.nim)) =>
    /\ ~last.ok
    /\ last.err = IF validateAllFields(SixFields(last.data)) THEN "uniqueness" ELSE "validation"
    /\ queued = last.before
    /\ ~dirty

C4_Witness ==
  /\ last.op = "add"
  /\ last.err = "uniqueness"
  /\ Len(last.before) >= 1
  /\ \E i \in 1..Len(last.before) :
       /\ EqualIgnoringCase(last.before[i].nim, last.data.nim)
       /\ last.before[i].nim # last.data.nim

\* C5: a successful add(data) appends exactly one record at the end; its id
\* differs from the id of every record already present, its nim is data.nim in
\* uppercase and its other fields equal those of data.
C5_AddAppends ==
  (last.op = "add" /\ last.ok) =>
    /\ Len(queued) = Len(last.before) + 1
    /\ SubSeq(queued, 1, Len(last.before)) = last.before
    /\ LET r == queued[Len(queued)]
       IN  /\ ~HasId(last.before, r.id)
           /\ r.nim = toUpperCase(last.data.nim)
           /\ \A k \in {"nama", "email", "jurusan", "semester", "ipk", "tanggalMasuk"} :
                r[k] = last.data[k]
           /\ DOMAIN r = FieldNames

C5_Witness ==
  /\ last.op = "add"
  /\ last.ok
  /\ Len(last.before) >= 1
  /\ last.data.nim # toUpperCase(last.data.nim)

\* C6: update(id, partialData) fails with not-found and leaves the collection
\* unchanged whenever no record has the given id, for every partialData.
C6_UpdateAbsentIdFails ==
  (last.op = "update" /\ ~HasId(last.before, last.id)) =>
    /\ ~last.ok
    /\ last.err = "notfound"
    /\ queued = last.before

\* C7: update on an existing id fails and leaves the collection unchanged
\* whenever the merged record violates a field rule or the supplied nim
\* differs from the current one and equals, ignoring case, another record's
\* nim; when it succeeds only the supplied fields of the target change and a
\* supplied nim is stored in uppercase.
C7_UpdateRevalidates ==
  (last.op = "update" /\ HasId(last.before, last.id)) =>
    \A i \in 1..Len(last.before) :
      last.before[i].id = last.id =>
        LET cur == last.before[i]
            merged == Spread(cur, last.data)
            clash == /\ "nim" \in DOMAIN last.data
                     /\ last.data.nim # cur.nim
                     /\ \E j \in 1..Len(last.before) :
                          /\ last.before[j].id # last.id
                          /\ EqualIgnoringCase(last.before[j].nim, last.data.nim)
        IN  IF ~validateAllFields(SixFields(merged)) \/ clash
              THEN ~last.ok /\ queued = last.before
              ELSE /\ last.ok
                   /\ \A k \in FieldNames :
                        queued[i][k] =
                          IF k = "nim" /\ k \in DOMAIN last.data THEN toUpperCase(last.data.nim)
                          ELSE IF k \in DOMAIN last.data THEN last.data[k]
                          ELSE cur[k]

\* C8: delete(id) fails with not-found and leaves the collection unchanged
\* when no record has that id; otherwise no record with that id remains and a
\* save of the resulting collection is triggered.
C8_Delete ==
  (last.op = "delete") =>
    IF ~HasId(last.before, last.id)
      THEN ~last.ok /\ last.err = "notfound" /\ queued = last.before /\ ~dirty
      ELSE /\ last.ok
           /\ ~HasId(queued, last.id)
           /\ queued = SelectSeq(last.before, LAMBDA s : s.id # last.id)
           /\ SaveTriggered

C8_Witness ==
  /\ last.op = "delete"
  /\ last.ok
  /\ Len(queued) >= 1
  /\ ~dirty
  /\ lastSave.success

C10_SaveBacksUp ==
  (lastSave.ran /\ lastSave.success /\ lastSave.prevCur.kind = "json") =>
    /\ store.bak = lastSave.prevCur
    /\ store.cur.kind = "json"
    /\ store.cur.doc.version = "1.0"
    /\ store.cur.doc.timestamp = lastSave.timestamp
    /\ store.cur.doc.count = Len(students)
    /\ store.cur.doc.data = students

C10_Witness ==
  /\ lastSave.ran
  /\ lastSave.success
  /\ lastSave.prevCur.kind = "json"
  /\ lastSave.prevCur.doc.data # students
  /\ Len(students) >= 1

\* ================================================= persistence gateway alone
\* The four gateway functions called one after another on a store that may
\* hold anything.  Of the state above only store, clock and last are used:
\* last is the gateway call just made, with the two calls before it.
MaxSaves == 2

RestoreFaults == {"none", "current"}

\* variant: the backup is parsed before the current slot is written, and a
\* backup that does not parse is not written
restoreFromBackup_ParseFirst(st, fault) ==
  LET backupData == st.bak
  IN  IF ~Truthy(backupData)
        THEN [store |-> st, success |-> FALSE, error |-> "notfound",
              hasData |-> FALSE, data |-> <<>>, timestamp |-> NullTime]
      ELSE IF backupData.kind # "json" \/ fault = "current"
        THEN [store |-> st, success |-> FALSE, error |-> "failed",
              hasData |-> FALSE, data |-> <<>>, timestamp |-> NullTime]
      ELSE [store |-> [st EXCEPT !.cur = backupData], success |-> TRUE, error |-> "none",
            hasData |-> TRUE, data |-> backupData.doc.data,
            timestamp |-> backupData.doc.timestamp]

\* restoreFromBackup(): the store afterwards and the result it returns
restoreFromBackup(st, fault) ==
  LET backupData == st.bak
      written == [st EXCEPT !.cur = backupData]
  IN  IF ~Truthy(backupData)
        THEN [store |-> st, success |-> FALSE, error |-> "notfound",
              hasData |-> FALSE, data |-> <<>>, timestamp |-> NullTime]
      ELSE IF fault = "current"
        THEN [store |-> st, success |-> FALSE, error |-> "failed",
              hasData |-> FALSE, data |-> <<>>, timestamp |-> NullTime]
      ELSE IF backupData.kind \in {"garbage", "jsonnull"}
        THEN [store |-> written, success |-> FALSE, error |-> "failed",
              hasData |-> FALSE, data |-> <<>>, timestamp |-> NullTime]
      ELSE IF backupData.kind = "baddata"
        THEN [store |-> written, success |-> TRUE, error |-> "none",
              hasData |-> FALSE, data |-> <<>>, timestamp |-> NullTime]
      ELSE [store |-> written, success |-> TRUE, error |-> "none",
            hasData |-> TRUE, data |-> backupData.doc.data,
            timestamp |-> backupData.doc.timestamp]

ClearFaults(st) == IF Truthy(st.cur) THEN {"none", "backup"} ELSE {"none"}

\* variant: the current slot is removed without the copy to the backup slot
clearAllData_NoBackup(st, fault) ==
  [store |-> [st EXCEPT !.cur = RawNull], success |-> TRUE]

\* clearAllData(): the store afterwards and the result it returns
clearAllData(st, fault) ==
  LET existingData == st.cur
  IN  IF Truthy(existingData) /\ fault = "backup"
        THEN [store |-> st, success |-> FALSE]
      ELSE IF Truthy(existingData)
        THEN [store |-> [st EXCEPT !.bak = existingData, !.cur = RawNull],
              success |-> TRUE]
      ELSE [store |-> [st EXCEPT !.cur = RawNull], success |-> TRUE]

\* collections handed to saveToFile
SaveInputs == { <<>>, <<Foreign(101, Str_A1)>>, <<Foreign(101, Str_A1), Foreign(102, Str_b2)>> }

StoreRaws ==
  { RawNull, RawEmpty, RawGarbage, RawBadData, RawJsonNull,
    JSONstringify([version |-> "1.0", timestamp |-> 0, count |-> 1,
                   data |-> <<Foreign(102, Str_b2)>>]) }

\* what is kept of an earlier call
Summary(call) == [op |-> call.op, ok |-> call.ok, arg |-> call.arg, timestamp |-> call.timestamp]

NoSummary == [op |-> "none", ok |-> TRUE, arg |-> <<>>, timestamp |-> NullTime]

GwNoCall == [op |-> "none", ok |-> TRUE, err |-> "none", arg |-> <<>>, fault |-> "none",
             hasData |-> FALSE, data |-> <<>>, timestamp |-> NullTime,
             before |-> [cur |-> RawNull, bak |-> RawNull],
             prev1 |-> NoSummary, prev2 |-> NoSummary]

GwInit ==
  /\ store \in [cur : StoreRaws, bak : StoreRaws]
  /\ students = <<>>
  /\ queued = <<>>
  /\ isLoading = TRUE
  /\ lastSaved = NullTime
  /\ dirty = FALSE
  /\ nextId = 1
  /\ clock = 0
  /\ calls = 0
  /\ last = GwNoCall
  /\ lastSave = NoSave

GwUnused == <<students, queued, isLoading, lastSaved, dirty, nextId, calls, lastSave>>

GwSave ==
  /\ clock < MaxSaves
  /\ \E c \in SaveInputs : \E fault \in SaveFaults(store) :
       LET result == saveToFile(store, c, clock + 1, fault)
       IN  /\ store' = result.store
           /\ last' = [op |-> "save", ok |-> result.success,
                       err |-> IF result.success THEN "none" ELSE "failed",
                       arg |-> c, fault |-> fault, hasData |-> FALSE, data |-> <<>>,
                       timestamp |-> result.timestamp, before |-> store,
                       prev1 |-> Summary(last), prev2 |-> last.prev1]
  /\ clock' = clock + 1
  /\ UNCHANGED GwUnused

GwLoad ==
  /\ LET result == readFromFile(store)
     IN  last' = [op |-> "load", ok |-> result.success, err |-> result.error,
                  arg |-> <<>>, fault |-> "none", hasData |-> result.success,
                  data |-> result.data, timestamp |-> result.timestamp,
                  before |-> store, prev1 |-> Summary(last), prev2 |-> last.prev1]
  /\ UNCHANGED <<store, clock>>
  /\ UNCHANGED GwUnused

GwRestore ==
  /\ \E fault \in RestoreFaults :
       LET result == restoreFromBackup(store, fault)
       IN  /\ store' = result.store
           /\ last' = [op |-> "restore", ok |-> result.success, err |-> result.error,
                       arg |-> <<>>, fault |-> fault, hasData |-> result.hasData,
                       data |-> result.data, timestamp |-> result.timestamp,
                       before |-> store, prev1 |-> Summary(last), prev2 |-> last.prev1]
  /\ UNCHANGED clock
  /\ UNCHANGED GwUnused

GwClear ==
  /\ \E fault \in ClearFaults(store) :
       LET result == clearAllData(store, fault)
       IN  /\ store' = result.store
           /\ last' = [op |-> "clear", ok |-> result.success,
                       err |-> IF result.success THEN "none" ELSE "failed",
                       arg |-> <<>>, fault |-> fault, hasData |-> FALSE, data |-> <<>>,
                       timestamp |-> NullTime, before |-> store,
                       prev1 |-> Summary(last), prev2 |-> last.prev1]
  /\ UNCHANGED clock
  /\ UNCHANGED GwUnused

GwNext == GwSave \/ GwLoad \/ GwRestore \/ GwClear

SpecStore == GwInit /\ [][GwNext]_vars

\* the snapshot saveToFile writes for a collection at a time
IsSnapshotOf(raw, c, timestamp) ==
  /\ raw.kind = "json"
  /\ raw.doc.version = "1.0"
  /\ raw.doc.timestamp = timestamp
  /\ raw.doc.count = Len(c)
  /\ raw.doc.data = c

\* C11: a successful save(collection) immediately followed by load() returns
\* success with data equal to the saved collection and the timestamp that save
\* returned.
C11_SaveThenLoad ==
  (last.op = "load" /\ last.prev1.op = "save" /\ last.prev1.ok) =>
    /\ last.ok
    /\ last.data = last.prev1.arg
    /\ last.timestamp = last.prev1.timestamp
    /\ last.timestamp >= 1

C11_Witness ==
  /\ last.op = "load"
  /\ last.prev1.op = "save"
  /\ last.prev1.ok
  /\ Len(last.prev1.arg) = 2
  /\ last.before.bak.kind = "json"

\* C12 (as stated): clear() copies the current snapshot (if any) into the
\* backup slot before removing the current slot, so that save(c), then
\* clear(), then restoreFromBackup() returns exactly c and leaves the current
\* slot holding the snapshot of c.
C12_ClearThenRestore ==
  /\ (last.op = "clear") =>
       /\ store.cur = RawNull
       /\ store.bak = IF Truthy(last.before.cur) THEN last.before.cur ELSE last.before.bak
  /\ (last.op = "restore" /\ last.prev1.op = "clear"
        /\ last.prev2.op = "save" /\ last.prev2.ok) =>
       /\ last.ok
       /\ last.hasData
       /\ last.data = last.prev2.arg
       /\ IsSnapshotOf(store.cur, last.prev2.arg, last.prev2.timestamp)

\* C12 (amended): the same, for a clear() and a restoreFromBackup() whose
\* writes the store accepts; a clear() whose backup write is rejected fails
\* and changes neither slot.
C12_ClearThenRestoreAccepted ==
  /\ (last.op = "clear" /\ last.fault = "none") =>
       /\ last.ok
       /\ store.cur = RawNull
       /\ store.bak = IF Truthy(last.before.cur) THEN last.before.cur ELSE last.before.bak
  /\ (last.op = "clear" /\ last.fault # "none") =>
       ~last.ok /\ store = last.before
  /\ (last.op = "restore" /\ last.fault = "none"
        /\ last.prev1.op = "clear" /\ last.prev1.ok
        /\ last.prev2.op = "save" /\ last.prev2.ok) =>
       /\ last.ok
       /\ last.hasData
       /\ last.data = last.prev2.arg
       /\ IsSnapshotOf(store.cur, last.prev2.arg, last.prev2.timestamp)

C12_Witness ==
  /\ last.op = "restore"
  /\ last.ok
  /\ last.prev1.op = "clear"
  /\ last.prev1.ok
  /\ last.prev2.op = "save"
  /\ last.prev2.ok
  /\ Len(last.prev2.arg) >= 1

\* C13 (as stated): load() returns success with an empty collection when the
\* current slot is absent, a format failure when the stored value parses but
\* has no sequence under data, a syntax failure when the stored text is not
\* parseable, otherwise success with the stored data; it modifies neither slot.
C13_LoadOutcomes ==
  (last.op = "load") =>
    /\ store = last.before
    /\ LET kind == last.before.cur.kind
       IN  CASE kind = "null" -> last.ok /\ last.data = <<>>
             [] kind = "baddata" -> ~last.ok /\ last.err = "format"
             [] kind = "jsonnull" -> ~last.ok /\ last.err \in {"format", "type"}
             [] kind \in {"garbage", "empty"} -> ~last.ok /\ last.err = "syntax"
             [] OTHER -> last.ok /\ last.data = last.before.cur.doc.data

\* C13 (amended): as stated, except that a current slot holding the empty
\* string is treated like an absent one: success with an empty collection.
C13_LoadOutcomesEmptyIsAbsent ==
  (last.op = "load") =>
    /\ store = last.before
    /\ LET kind == last.before.cur.kind
       IN  CASE kind \in {"null", "empty"} -> last.ok /\ last.data = <<>>
             [] kind = "baddata" -> ~last.ok /\ last.err = "format"
             [] kind = "jsonnull" -> ~last.ok /\ last.err \in {"format", "type"}
             [] kind = "garbage" -> ~last.ok /\ last.err = "syntax"
             [] OTHER -> last.ok /\ last.data = last.before.cur.doc.data
                         /\ last.timestamp = last.before.cur.doc.timestamp

C13_Witness ==
  /\ last.op = "load"
  /\ last.before.cur.kind = "baddata"
  /\ last.prev1.op = "restore"

\* C14 (as stated): restoreFromBackup() fails with not-found and changes
\* neither slot when the backup slot is empty; otherwise it overwrites the
\* current slot with the backup slot's contents, leaves the backup slot
\* unchanged, and returns the collection stored in the backup.
C14_Restore ==
  (last.op = "restore") =>
    IF ~Truthy(last.before.bak)
      THEN ~last.ok /\ last.err = "notfound" /\ store = last.before
      ELSE /\ store.cur = last.before.bak
           /\ store.bak = last.before.bak
           /\ last.ok
           /\ last.hasData
           /\ last.data = last.before.bak.doc.data

\* C14 (amended): restoreFromBackup() fails with not-found and changes neither
\* slot when the backup slot is empty; it fails and changes neither slot when
\* the store rejects the write; otherwise it overwrites the current slot with
\* the backup slot's contents and leaves the backup slot unchanged, returning
\* the collection stored in the backup when the backup is a snapshot and a
\* failure when the backup text does not parse.
C14_RestoreAccepted ==
  (last.op = "restore") =>
    IF ~Truthy(last.before.bak)
      THEN ~last.ok /\ last.err = "notfound" /\ store = last.before
    ELSE IF last.fault # "none"
      THEN ~last.ok /\ store = last.before
    ELSE /\ store.cur = last.before.bak
         /\ store.bak = last.before.bak
         /\ (last.before.bak.kind = "json" =>
               last.ok /\ last.hasData /\ last.data = last.before.bak.doc.data)
         /\ (last.before.bak.kind \in {"garbage", "jsonnull"} => ~last.ok)

C14_Witness ==
  /\ last.op = "restore"
  /\ last.fault = "none"
  /\ last.before.bak.kind = "garbage"
  /\ last.before.cur.kind = "json"
  /\ store.cur = RawGarbage


\* ------------------------------------------------- claims on the manager (2)
\* C15: when the save triggered by a successful mutation fails, the in-memory
\* collection keeps the mutated value, the call still reports success, and the
\* current slot keeps its previous contents until the next successful save.
C15_NoRollback ==
  (lastSave.ran /\ ~lastSave.success) =>
    /\ store.cur = lastSave.prevCur
    /\ (~dirty /\ last.op # "none" /\ last.ok) =>
         /\ lastSave.after = last.op
         /\ students = queued
         /\ (last.op = "add" =>
               /\ Len(students) = Len(last.before) + 1
               /\ students[Len(students)].id = last.id
               /\ SubSeq(students, 1, Len(last.before)) = last.before)
         /\ (last.op = "delete" =>
               /\ Len(students) = Len(last.before) - 1
               /\ ~HasId(students, last.id))
         /\ (last.op = "import" => students = last.data)

C15_Witness ==
  /\ lastSave.ran
  /\ ~lastSave.success
  /\ ~dirty
  /\ last.op = "add"
  /\ last.ok
  /\ Len(students) = 1
  /\ store.cur.kind = "json"
  /\ store.cur.doc.data # students

\* the record an update call was aimed at, in the collection before the call
TargetBefore ==
  last.before[CHOOSE i \in 1..Len(last.before) : last.before[i].id = last.id]

\* some record other than the target has this nim, ignoring case
OtherHasNim(coll, id, nim) ==
  \E i \in 1..Len(coll) : coll[i].id # id /\ EqualIgnoringCase(coll[i].nim, nim)

\* the store is as the last run of the auto-save effect left it
StoreAsLastSaveLeftIt ==
  /\ lastSave.ran
  /\ IF lastSave.success
       THEN /\ store.cur.kind = "json"
            /\ store.cur.doc.timestamp = lastSave.timestamp
            /\ store.cur.doc.data = last.before
       ELSE store.cur = lastSave.prevCur

\* C16: in every add or update call the steps occur in the order validation,
\* uniqueness check, mutation, save, and no later step occurs once an earlier
\* one has failed: a failed call changes neither the collection nor the store,
\* an input that is field-invalid and a duplicate is rejected with the
\* validation error, a uniqueness conflict is reported only for input that
\* passed validation, and a call that mutates has passed validation and the
\* uniqueness check.
C16_StepOrder ==
  /\ (last.op \in {"add", "update"} /\ ~last.ok) =>
       /\ ~dirty
       /\ queued = last.before
       /\ students = last.before
       /\ StoreAsLastSaveLeftIt
  /\ (last.op = "add" /\ ~validateAllFields(last.data)
        /\ HasNim(last.before, last.data.nim)) =>
       ~last.ok /\ last.err = "validation"
  /\ (last.op = "add" /\ last.err = "uniqueness") => validateAllFields(last.data)
  /\ (last.op = "update" /\ last.err = "uniqueness") =>
       validateAllFields(Spread(TargetBefore, last.data))
  /\ (last.op = "add" /\ last.ok) =>
       validateAllFields(last.data) /\ ~HasNim(last.before, last.data.nim)
  /\ (last.op = "update" /\ last.ok /\ HasId(last.before, last.id)) =>
       /\ validateAllFields(Spread(TargetBefore, last.data))
       /\ ("nim" \in DOMAIN last.data /\ last.data.nim # TargetBefore.nim) =>
            ~OtherHasNim(last.before, last.id, last.data.nim)


\* ------------------------------------------- calls issued without a render
\* The callbacks are useCallback closures over the students of the last
\* render, and setStudents only queues its updater: a caller that holds the
\* hook's result can issue a second call before the render that commits the
\* first, and an import's FileReader can complete between any two calls.
\* The page shows the spinner until the render after loading, whose auto-save
\* effect has then run.
Mounted == ~isLoading /\ lastSave.ran

BatchedAdd == Mounted /\ \E data \in AddInputs : addStudent(data)

BatchedUpdate ==
  Mounted /\ \E id \in CallIds : \E data \in UpdateInputs : updateStudent(id, data)

BatchedDelete == Mounted /\ \E id \in CallIds : deleteStudent(id)

BatchedDeleteMany == Mounted /\ \E ids \in SUBSET CallIds : deleteMultiple(ids)

BatchedImport == Mounted /\ \E data \in ImportInputs : importStudents(data)

BatchedNext ==
  \/ Mount
  \/ Render
  \/ BatchedAdd
  \/ BatchedUpdate
  \/ BatchedDelete
  \/ BatchedDeleteMany
  \/ BatchedImport

SpecBatched == Init /\ [][BatchedNext]_vars

\* C17: the existence and uniqueness checks of each add, update or delete call
\* are evaluated against the collection that contains the effect of every
\* earlier successful call (last.before), also when calls are issued back to
\* back before a render and when an import completes between them.
C17_ChecksSeeEarlierCalls ==
  /\ (last.op = "add" /\ last.ok) => ~HasNim(last.before, last.data.nim)
  /\ (last.op = "add" /\ last.err = "uniqueness") =>
       HasNim(last.before, last.data.nim)
  /\ (last.op = "delete") => (last.ok <=> HasId(last.before, last.id))
  /\ (last.op = "update" /\ last.err = "notfound") =>
       ~HasId(last.before, last.id)
  /\ (last.op = "update" /\ last.err \in {"validation", "uniqueness"}) =>
       HasId(last.before, last.id)
  /\ (last.op = "update" /\ last.err = "uniqueness") =>
       OtherHasNim(last.before, last.id, last.data.nim)


\* ==================================================== sorting and searching
MaxSortLen == 4

\* UTF-16 code unit of a character: the order of < and > on strings
CharCode(c) ==
  CASE c = " " -> 32
    [] c = "." -> 46
    [] c = "1" -> 49
    [] c = "2" -> 50
    [] c = "@" -> 64
    [] c = "A" -> 65
    [] c = "B" -> 66
    [] c = "I" -> 73
    [] c = "a" -> 97
    [] c = "b" -> 98
    [] c = "i" -> 105
    [] OTHER -> 305

\* a < b on strings: at the first position where they differ the code unit of
\* a is smaller, or a is a proper prefix of b
StringLess(a, b) ==
  \E k \in 0..Len(a) :
    /\ k <= Len(b)
    /\ \A i \in 1..k : a[i] = b[i]
    /\ \/ k = Len(a) /\ k < Len(b)
       \/ k < Len(a) /\ k < Len(b) /\ CharCode(a[k + 1]) < CharCode(b[k + 1])

\* typeof value === "number"
NumberFields == {"semester", "ipk"}

\* a < b as JavaScript evaluates it on two field values of one field
Less(a, b, field) ==
  IF field \in NumberFields
    THEN a # NaN /\ b # NaN /\ a < b
    ELSE StringLess(a, b)

\* a <= b likewise
LessOrEqual(a, b, field) ==
  IF field \in NumberFields
    THEN a # NaN /\ b # NaN /\ a <= b
    ELSE a = b \/ StringLess(a, b)

\* variant: strings are compared as stored
getFieldValue_Raw(student, field) == student[field]

\* getFieldValue
getFieldValue(student, field) ==
  IF field \in NumberFields THEN student[field] ELSE toLowerCase(student[field])

\* data[i] with the code's indices, which start at 0
At(data, i) == data[i + 1]

Put(data, i, v) == [data EXCEPT ![i + 1] = v]

\* variant: equal keys are swapped and shifted too
ShouldSwap_OrEqual(a, b, field, order) ==
  IF order = "asc" THEN LessOrEqual(b, a, field) ELSE LessOrEqual(a, b, field)

\* order === "asc" ? a > b : a < b
ShouldSwap(a, b, field, order) ==
  IF order = "asc" THEN Less(b, a, field) ELSE Less(a, b, field)

\* bubbleSort: the inner loop from j on, for outer index i
RECURSIVE BubbleInner(_, _, _, _, _)
BubbleInner(st, i, j, field, order) ==
  IF ~(j < Len(st.data) - i - 1) THEN st
  ELSE
    LET a == getFieldValue(At(st.data, j), field)
        b == getFieldValue(At(st.data, j + 1), field)
        counted == [st EXCEPT !.comparisons = st.comparisons + 1]
        next == IF ShouldSwap(a, b, field, order)
                  THEN [counted EXCEPT
                          !.data = Put(Put(st.data, j, At(st.data, j + 1)),
                                       j + 1, At(st.data, j)),
                          !.swaps = st.swaps + 1,
                          !.swapped = TRUE]
                  ELSE counted
    IN  BubbleInner(next, i, j + 1, field, order)

\* variant: every pass runs, whether or not the one before swapped
RECURSIVE BubbleOuter_NoBreak(_, _, _, _)
BubbleOuter_NoBreak(st, i, field, order) ==
  IF ~(i < Len(st.data) - 1) THEN st
  ELSE BubbleOuter_NoBreak(BubbleInner([st EXCEPT !.swapped = FALSE], i, 0, field, order),
                           i + 1, field, order)

RECURSIVE BubbleOuter(_, _, _, _)
BubbleOuter(st, i, field, order) ==
  IF ~(i < Len(st.data) - 1) THEN st
  ELSE
    LET pass == BubbleInner([st EXCEPT !.swapped = FALSE], i, 0, field, order)
    IN  IF ~pass.swapped THEN pass ELSE BubbleOuter(pass, i + 1, field, order)

bubbleSort(arr, field, order) ==
  LET r == BubbleOuter([data |-> arr, comparisons |-> 0, swaps |-> 0,
                        swapped |-> FALSE], 0, field, order)
  IN  [sortedData |-> r.data, comparisons |-> r.comparisons, swaps |-> r.swaps]

\* selectionSort: the inner loop from j on; sel is selectedIdx
RECURSIVE SelectionInner(_, _, _, _, _)
SelectionInner(st, sel, j, field, order) ==
  IF ~(j < Len(st.data)) THEN [st |-> st, selectedIdx |-> sel]
  ELSE
    LET selected == getFieldValue(At(st.data, sel), field)
        current == getFieldValue(At(st.data, j), field)
        shouldSelect == IF order = "asc" THEN Less(current, selected, field)
                                         ELSE Less(selected, current, field)
    IN  SelectionInner([st EXCEPT !.comparisons = st.comparisons + 1],
                       IF shouldSelect THEN j ELSE sel, j + 1, field, order)

RECURSIVE SelectionOuter(_, _, _, _)
SelectionOuter(st, i, field, order) ==
  IF ~(i < Len(st.data) - 1) THEN st
  ELSE
    LET inner == SelectionInner(st, i, i + 1, field, order)
        sel == inner.selectedIdx
        next == IF sel # i
                  THEN [inner.st EXCEPT
                          !.data = Put(Put(inner.st.data, i, At(inner.st.data, sel)),
                                       sel, At(inner.st.data, i)),
                          !.swaps = inner.st.swaps + 1]
                  ELSE inner.st
    IN  SelectionOuter(next, i + 1, field, order)

selectionSort(arr, field, order) ==
  LET r == SelectionOuter([data |-> arr, comparisons |-> 0, swaps |-> 0],
                          0, field, order)
  IN  [sortedData |-> r.data, comparisons |-> r.comparisons, swaps |-> r.swaps]

\* the while loop shared by insertionSort (gap 1) and shellSort: elements gap
\* apart are shifted up while they are out of order with the held value;
\* j is the index the held value goes to when the loop ends
RECURSIVE ShiftLoop(_, _, _, _, _, _)
ShiftLoop(st, j, gap, heldValue, field, order) ==
  IF ~(j >= gap) THEN [st |-> st, j |-> j]
  ELSE
    LET compareValue == getFieldValue(At(st.data, j - gap), field)
        counted == [st EXCEPT !.comparisons = st.comparisons + 1]
    IN  IF ShouldSwap(compareValue, heldValue, field, order)
          THEN ShiftLoop([counted EXCEPT
                            !.data = Put(st.data, j, At(st.data, j - gap)),
                            !.swaps = st.swaps + 1],
                         j - gap, gap, heldValue, field, order)
          ELSE [st |-> counted, j |-> j]

\* for (let i = ...; i < n; i++) of insertionSort and of one gap of shellSort
RECURSIVE GapPass(_, _, _, _, _)
GapPass(st, i, gap, field, order) ==
  IF ~(i < Len(st.data)) THEN st
  ELSE
    LET temp == At(st.data, i)
        shifted == ShiftLoop(st, i, gap, getFieldValue(temp, field), field, order)
    IN  GapPass([shifted.st EXCEPT !.data = Put(shifted.st.data, shifted.j, temp)],
                i + 1, gap, field, order)

insertionSort(arr, field, order) ==
  LET r == GapPass([data |-> arr, comparisons |-> 0, swaps |-> 0], 1, 1, field, order)
  IN  [sortedData |-> r.data, comparisons |-> r.comparisons, swaps |-> r.swaps]

\* for (gap = floor(n / 2); gap > 0; gap = floor(gap / 2))
RECURSIVE ShellGaps(_, _, _, _)
ShellGaps(st, gap, field, order) ==
  IF ~(gap > 0) THEN st
  ELSE ShellGaps(GapPass(st, gap, gap, field, order), gap \div 2, field, order)

shellSort(arr, field, order) ==
  LET r == ShellGaps([data |-> arr, comparisons |-> 0, swaps |-> 0],
                     Len(arr) \div 2, field, order)
  IN  [sortedData |-> r.data, comparisons |-> r.comparisons, swaps |-> r.swaps]

\* variant: on equal keys the element of the right half goes first
LeftFirst_Strict(leftValue, rightValue, field, order) ==
  IF order = "asc" THEN Less(leftValue, rightValue, field)
                   ELSE Less(rightValue, leftValue, field)

\* order === "asc" ? leftValue <= rightValue : leftValue >= rightValue
LeftFirst(leftValue, rightValue, field, order) ==
  IF order = "asc" THEN LessOrEqual(leftValue, rightValue, field)
                   ELSE LessOrEqual(rightValue, leftValue, field)

\* mergeSort.merge: the while loop, then the two concats; n counts the loop's
\* rounds (comparisons and swaps both go up by one per round)
RECURSIVE MergeLoop(_, _, _, _, _, _, _, _)
MergeLoop(left, right, leftIdx, rightIdx, result, n, field, order) ==
  IF ~(leftIdx < Len(left) /\ rightIdx < Len(right))
    THEN [data |-> result \o SubSeq(left, leftIdx + 1, Len(left))
                          \o SubSeq(right, rightIdx + 1, Len(right)),
          rounds |-> n]
  ELSE IF LeftFirst(getFieldValue(At(left, leftIdx), field),
                    getFieldValue(At(right, rightIdx), field), field, order)
    THEN MergeLoop(left, right, leftIdx + 1, rightIdx,
                   Append(result, At(left, leftIdx)), n + 1, field, order)
  ELSE MergeLoop(left, right, leftIdx, rightIdx + 1,
                 Append(result, At(right, rightIdx)), n + 1, field, order)

\* mergeSort.sort
RECURSIVE MergeSortRec(_, _, _)
MergeSortRec(arr, field, order) ==
  IF Len(arr) <= 1 THEN [data |-> arr, rounds |-> 0]
  ELSE
    LET mid == Len(arr) \div 2
        left == MergeSortRec(SubSeq(arr, 1, mid), field, order)
        right == MergeSortRec(SubSeq(arr, mid + 1, Len(arr)), field, order)
        merged == MergeLoop(left.data, right.data, 0, 0, <<>>, 0, field, order)
    IN  [data |-> merged.data, rounds |-> left.rounds + right.rounds + merged.rounds]

mergeSort(arr, field, order) ==
  LET r == MergeSortRec(arr, field, order)
  IN  [sortedData |-> r.data, comparisons |-> r.rounds, swaps |-> r.rounds]

\* variant: the probe is the left end of the interval
RECURSIVE BinaryLoop_ProbeLeft(_, _, _, _, _, _)
BinaryLoop_ProbeLeft(arr, search, field, left, right, comparisons) ==
  IF ~(left <= right)
    THEN [found |-> FALSE, index |-> 0 - 1, comparisons |-> comparisons,
          probes |-> <<>>]
  ELSE
    LET mid == left
        fieldValue == toLowerCase(At(arr, mid)[field])
        rest == IF StringLess(fieldValue, search)
                  THEN BinaryLoop_ProbeLeft(arr, search, field, mid + 1, right,
                                            comparisons + 1)
                  ELSE BinaryLoop_ProbeLeft(arr, search, field, left, mid - 1,
                                            comparisons + 1)
    IN  IF fieldValue = search
          THEN [found |-> TRUE, index |-> mid, comparisons |-> comparisons + 1,
                probes |-> <<mid>>]
          ELSE [rest EXCEPT !.probes = <<mid>> \o rest.probes]

\* binarySearch: the while loop; search is searchValue.toLowerCase(); probes
\* lists the values mid takes
RECURSIVE BinaryLoop(_, _, _, _, _, _)
BinaryLoop(arr, search, field, left, right, comparisons) ==
  IF ~(left <= right)
    THEN [found |-> FALSE, index |-> 0 - 1, comparisons |-> comparisons,
          probes |-> <<>>]
  ELSE
    LET mid == (left + right) \div 2
        fieldValue == toLowerCase(At(arr, mid)[field])
        rest == IF StringLess(fieldValue, search)
                  THEN BinaryLoop(arr, search, field, mid + 1, right, comparisons + 1)
                  ELSE BinaryLoop(arr, search, field, left, mid - 1, comparisons + 1)
    IN  IF fieldValue = search
          THEN [found |-> TRUE, index |-> mid, comparisons |-> comparisons + 1,
                probes |-> <<mid>>]
          ELSE [rest EXCEPT !.probes = <<mid>> \o rest.probes]

\* variant: the query is compared as typed
binarySearch_QueryAsTyped(arr, searchValue, field) ==
  BinaryLoop(arr, searchValue, field, 0, Len(arr) - 1, 0)

binarySearch(arr, searchValue, field) ==
  BinaryLoop(arr, toLowerCase(searchValue), field, 0, Len(arr) - 1, 0)

\* String.prototype.includes
Includes(s, sub) ==
  \E j \in 0..(Len(s) - Len(sub)) : SubSeq(s, j + 1, j + Len(sub)) = sub

\* linearSearch: the for loop from index i on
RECURSIVE LinearLoop(_, _, _, _)
LinearLoop(arr, searchValue, field, i) ==
  IF ~(i < Len(arr))
    THEN [found |-> FALSE, index |-> 0 - 1, comparisons |-> i]
  ELSE IF Includes(toLowerCase(At(arr, i)[field]), toLowerCase(searchValue))
    THEN [found |-> TRUE, index |-> i, comparisons |-> i + 1]
  ELSE LinearLoop(arr, searchValue, field, i + 1)

linearSearch(arr, searchValue, field) == LinearLoop(arr, searchValue, field, 0)

linearSearchAll(arr, searchValue, field) ==
  [results |-> SelectSeq(arr, LAMBDA s :
                 Includes(toLowerCase(s[field]), toLowerCase(searchValue))),
   comparisons |-> Len(arr)]

\* sequentialSearchWithPattern: the inner loop from j on; n counts its rounds
RECURSIVE PatternLoop(_, _, _, _)
PatternLoop(fieldValue, lowerPattern, j, n) ==
  IF ~(j <= Len(fieldValue) - Len(lowerPattern))
    THEN [found |-> FALSE, rounds |-> n]
  ELSE IF SubSeq(fieldValue, j + 1, j + Len(lowerPattern)) = lowerPattern
    THEN [found |-> TRUE, rounds |-> n + 1]
  ELSE PatternLoop(fieldValue, lowerPattern, j + 1, n + 1)

\* variant: the inner loop stops one position early
RECURSIVE PatternOuter_ShortLoop(_, _, _, _, _)
PatternOuter_ShortLoop(arr, lowerPattern, field, i, acc) ==
  IF ~(i < Len(arr)) THEN acc
  ELSE
    LET fieldValue == toLowerCase(At(arr, i)[field])
        inner == PatternLoop(SubSeq(fieldValue, 1, Len(fieldValue) - 1),
                             lowerPattern, 0, 0)
    IN  PatternOuter_ShortLoop(arr, lowerPattern, field, i + 1,
          [results |-> IF inner.found THEN Append(acc.results, At(arr, i))
                                      ELSE acc.results,
           comparisons |-> acc.comparisons + 1 + inner.rounds])

\* sequentialSearchWithPattern: the outer loop from i on
RECURSIVE PatternOuter(_, _, _, _, _)
PatternOuter(arr, lowerPattern, field, i, acc) ==
  IF ~(i < Len(arr)) THEN acc
  ELSE
    LET fieldValue == toLowerCase(At(arr, i)[field])
        inner == PatternLoop(fieldValue, lowerPattern, 0, 0)
    IN  PatternOuter(arr, lowerPattern, field, i + 1,
          [results |-> IF inner.found THEN Append(acc.results, At(arr, i))
                                      ELSE acc.results,
           comparisons |-> acc.comparisons + 1 + inner.rounds])

sequentialSearchWithPattern(arr, pattern, field) ==
  PatternOuter(arr, toLowerCase(pattern), field, 0,
               [results |-> <<>>, comparisons |-> 0])

\* String.prototype.localeCompare in the root collation: whitespace, then
\* punctuation, then digits, then letters, a letter's two cases together
LocaleWeight(c) ==
  CASE c = " " -> 1
    [] c = "." -> 2
    [] c = "@" -> 3
    [] c = "1" -> 4
    [] c = "2" -> 5
    [] c \in {"a", "A"} -> 6
    [] c \in {"b", "B"} -> 7
    [] c \in {"i", "I"} -> 8
    [] OTHER -> 9

\* a sorts before b by the letters, digits and signs alone
LocalePrimaryLess(a, b) ==
  \E k \in 0..Len(a) :
    /\ k <= Len(b)
    /\ \A i \in 1..k : LocaleWeight(a[i]) = LocaleWeight(b[i])
    /\ \/ k = Len(a) /\ k < Len(b)
       \/ k < Len(a) /\ k < Len(b) /\ LocaleWeight(a[k + 1]) < LocaleWeight(b[k + 1])

\* equal but for case: the lower-case letter goes first where they differ
LocaleCaseLess(a, b) ==
  \E k \in 1..Len(a) :
    /\ \A i \in 1..(k - 1) : a[i] = b[i]
    /\ a[k] # b[k]
    /\ a[k] \in LowerLetters

\* a.localeCompare(b) < 0
LocaleLess(a, b) ==
  \/ LocalePrimaryLess(a, b)
  \/ /\ ~LocalePrimaryLess(b, a)
     /\ Len(a) = Len(b)
     /\ LocaleCaseLess(a, b)

\* [...students].sort(compare): Array.prototype.sort is stable, so the result
\* is fixed by the comparator: each element goes behind those not after it
RECURSIVE LocaleSortFrom(_, _, _, _)
LocaleSortFrom(sorted, arr, i, field) ==
  IF ~(i < Len(arr)) THEN sorted
  ELSE
    LET r == At(arr, i)
        before == SelectSeq(sorted, LAMBDA e : ~LocaleLess(r[field], e[field]))
        after == SelectSeq(sorted, LAMBDA e : LocaleLess(r[field], e[field]))
    IN  LocaleSortFrom(before \o <<r>> \o after, arr, i + 1, field)

compareSearchAlgorithms(arr, searchValue, field) ==
  LET sortedStudents == LocaleSortFrom(<<>>, arr, 0, field)
  IN  [linear |-> linearSearch(arr, searchValue, field),
       binary |-> binarySearch(sortedStudents, searchValue, field),
       dataSize |-> Len(arr),
       sortedStudents |-> sortedStudents]

\* ------------------------------------------------ inputs of the algorithms
Str_a == <<"a">>

\* the sort keys of the sample records: nim and ipk
SortKeys == 1..4

KeyNim(k) ==
  CASE k = 1 -> Str_a1
    [] k = 2 -> Str_A1
    [] k = 3 -> Str_b2
    [] OTHER -> Str_a

KeyIpk(k) ==
  CASE k = 1 -> 300
    [] k = 2 -> 200
    [] k = 3 -> 350
    [] OTHER -> 300

Str_mail1 == <<"a", "1", "@", "b", ".", "a", "b">>
Str_mailb == <<"b", "@", "b", ".", "a", "b">>

KeyEmail(k) ==
  CASE k = 1 -> Str_mail1
    [] k = 3 -> Str_mailb
    [] OTHER -> Str_mail

\* the record at position pos (ids are distinct), carrying key k
AlgRecord(pos, k) ==
  StudentToJSON(Spread(ValidData(KeyNim(k)),
                       [id |-> 100 + pos, ipk |-> KeyIpk(k), email |-> KeyEmail(k)]))

AlgInputs ==
  UNION { { [i \in 1..n |-> AlgRecord(i, ks[i])] : ks \in [1..n -> SortKeys] } :
          n \in 0..MaxSortLen }

SortFieldInputs == {"nim", "ipk"}
SortOrders == {"asc", "desc"}
Queries == { Str_a1, Str_A1, Str_b2, Str_a, Str_ba, <<>> }

\* ------------------------------------- the algorithms applied to a collection
AlgNoCall == [op |-> "none", field |-> "nim", order |-> "asc", query |-> <<>>,
              input |-> <<>>, sortedData |-> <<>>, comparisons |-> 0, swaps |-> 0,
              found |-> FALSE, index |-> 0 - 1, probes |-> <<>>,
              linear |-> [found |-> FALSE, index |-> 0 - 1], dataSize |-> 0,
              results |-> <<>>]

AlgInit ==
  /\ students \in AlgInputs
  /\ store = [cur |-> RawNull, bak |-> RawNull]
  /\ queued = <<>>
  /\ isLoading = FALSE
  /\ lastSaved = NullTime
  /\ dirty = FALSE
  /\ nextId = 1
  /\ clock = 0
  /\ calls = 0
  /\ last = AlgNoCall
  /\ lastSave = NoSave

\* the functions are pure: a behaviour is one call on one collection
NotCalled == last.op = "none"

AlgUnused == <<store, students, queued, isLoading, lastSaved, dirty, nextId, clock, calls, lastSave>>

Sorted(op, result, field, order) ==
  /\ last' = [AlgNoCall EXCEPT !.op = op, !.field = field, !.order = order,
                               !.input = students,
                               !.sortedData = result.sortedData,
                               !.comparisons = result.comparisons,
                               !.swaps = result.swaps]
  /\ UNCHANGED AlgUnused

AlgBubble ==
  /\ NotCalled
  /\ \E field \in SortFieldInputs : \E order \in SortOrders :
    Sorted("bubble", bubbleSort(students, field, order), field, order)

AlgSelection ==
  /\ NotCalled
  /\ \E field \in SortFieldInputs : \E order \in SortOrders :
    Sorted("selection", selectionSort(students, field, order), field, order)

AlgInsertion ==
  /\ NotCalled
  /\ \E field \in SortFieldInputs : \E order \in SortOrders :
    Sorted("insertion", insertionSort(students, field, order), field, order)

AlgShell ==
  /\ NotCalled
  /\ \E field \in SortFieldInputs : \E order \in SortOrders :
    Sorted("shell", shellSort(students, field, order), field, order)

AlgMerge ==
  /\ NotCalled
  /\ \E field \in SortFieldInputs : \E order \in SortOrders :
    Sorted("merge", mergeSort(students, field, order), field, order)

AlgBinary ==
  /\ NotCalled
  /\ \E query \in Queries :
    LET result == binarySearch(students, query, "nim")
    IN  /\ last' = [AlgNoCall EXCEPT !.op = "binary", !.query = query,
                                     !.input = students,
                                     !.comparisons = result.comparisons,
                                     !.found = result.found,
                                     !.index = result.index,
                                     !.probes = result.probes]
        /\ UNCHANGED AlgUnused

SearchFieldInputs == {"nim", "email"}
EmailQueries == { Str_mail, Str_mail1, Str_mailb, <<"@">>, Str_nomail, Str_long }

QueriesFor(field) == IF field = "email" THEN EmailQueries ELSE Queries

AlgCompareSearch ==
  /\ NotCalled
  /\ \E field \in SearchFieldInputs : \E query \in QueriesFor(field) :
    LET result == compareSearchAlgorithms(students, query, field)
    IN  /\ last' = [AlgNoCall EXCEPT !.op = "compareSearch", !.field = field,
                                     !.query = query,
                                     !.input = students,
                                     !.sortedData = result.sortedStudents,
                                     !.comparisons = result.binary.comparisons,
                                     !.found = result.binary.found,
                                     !.index = result.binary.index,
                                     !.probes = result.binary.probes,
                                     !.linear = [found |-> result.linear.found,
                                                 index |-> result.linear.index],
                                     !.dataSize = result.dataSize]
        /\ UNCHANGED AlgUnused

AlgLinearAll ==
  /\ NotCalled
  /\ \E field \in SearchFieldInputs : \E query \in QueriesFor(field) :
    LET result == linearSearchAll(students, query, field)
    IN  /\ last' = [AlgNoCall EXCEPT !.op = "linearAll", !.field = field,
                                     !.query = query,
                                     !.input = students,
                                     !.comparisons = result.comparisons,
                                     !.results = result.results]
        /\ UNCHANGED AlgUnused

AlgPattern ==
  /\ NotCalled
  /\ \E field \in SearchFieldInputs : \E query \in QueriesFor(field) :
    LET result == sequentialSearchWithPattern(students, query, field)
    IN  /\ last' = [AlgNoCall EXCEPT !.op = "pattern", !.field = field,
                                     !.query = query,
                                     !.input = students,
                                     !.comparisons = result.comparisons,
                                     !.results = result.results]
        /\ UNCHANGED AlgUnused

AlgNext ==
  \/ AlgBubble
  \/ AlgSelection
  \/ AlgInsertion
  \/ AlgShell
  \/ AlgMerge
  \/ AlgBinary
  \/ AlgCompareSearch
  \/ AlgLinearAll
  \/ AlgPattern

SpecAlg == AlgInit /\ [][AlgNext]_vars

\* ------------------------------------------------- claims on the algorithms
SortOps == {"bubble", "selection", "insertion", "shell", "merge"}

\* the comparison rule: numbers as they are, strings lower-cased
SortKeyOf(r, field) ==
  IF field \in NumberFields THEN r[field] ELSE toLowerCase(r[field])

\* the key of a comes strictly before the key of b under the rule
KeyBefore(a, b, field) ==
  IF field \in NumberFields
    THEN SortKeyOf(a, field) < SortKeyOf(b, field)
    ELSE StringLess(SortKeyOf(a, field), SortKeyOf(b, field))

Occurrences(seq, r) == Cardinality({i \in 1..Len(seq) : seq[i] = r})

IsPermutation(s, t) ==
  /\ Len(s) = Len(t)
  /\ \A i \in 1..Len(s) : Occurrences(s, s[i]) = Occurrences(t, s[i])

Monotonic(seq, field, order) ==
  \A i \in 1..(Len(seq) - 1) :
    IF order = "asc" THEN ~KeyBefore(seq[i + 1], seq[i], field)
                     ELSE ~KeyBefore(seq[i], seq[i + 1], field)

\* C18: the sortedData of each of the five sorts has the length of the input,
\* is a permutation of it and is monotonic in the requested order under the
\* comparison rule.
C18_SortsPermuteAndOrder ==
  (last.op \in SortOps) =>
    /\ Len(last.sortedData) = Len(last.input)
    /\ IsPermutation(last.sortedData, last.input)
    /\ Monotonic(last.sortedData, last.field, last.order)

C18_Witness ==
  /\ last.op = "shell"
  /\ last.field = "nim"
  /\ last.order = "desc"
  /\ Len(last.input) = MaxSortLen
  /\ last.sortedData # last.input
  /\ \E i \in 1..Len(last.input) : last.input[i].nim = Str_A1
  /\ \E i \in 1..Len(last.input) : last.input[i].nim = Str_a
  /\ last.swaps >= 2

\* where a record stands in a sequence of distinct records
PositionIn(seq, r) == CHOOSE i \in 1..Len(seq) : seq[i] = r

\* C19: mergeSort is stable for asc and for desc: two records with equal sort
\* keys stand in the output in the order they had in the input.
C19_MergeSortStable ==
  (last.op = "merge") =>
    \A p \in 1..Len(last.sortedData) : \A q \in (p + 1)..Len(last.sortedData) :
      SortKeyOf(last.sortedData[p], last.field) = SortKeyOf(last.sortedData[q], last.field)
        => PositionIn(last.input, last.sortedData[p])
             < PositionIn(last.input, last.sortedData[q])

C19_Witness ==
  /\ last.op = "merge"
  /\ last.order = "desc"
  /\ last.field = "nim"
  /\ Len(last.input) = MaxSortLen
  /\ last.sortedData # last.input
  /\ \E p \in 1..Len(last.sortedData) : \E q \in (p + 1)..Len(last.sortedData) :
       /\ last.sortedData[p].nim = Str_A1
       /\ last.sortedData[q].nim = Str_a1
       /\ PositionIn(last.input, last.sortedData[q])
            > PositionIn(last.input, last.sortedData[p]) + 1

\* sorted ascending by the lower-cased field
SortedAscending(seq, field) ==
  \A i \in 1..(Len(seq) - 1) :
    ~StringLess(toLowerCase(seq[i + 1][field]), toLowerCase(seq[i][field]))

\* C20: on a collection sorted ascending by the lower-cased field,
\* binarySearch returns found with the index of a record whose lower-cased
\* field equals the lower-cased query whenever there is such a record, and
\* not found with index -1 when there is none.
C20_BinarySearchOnSorted ==
  (last.op = "binary" /\ SortedAscending(last.input, "nim")) =>
    IF \E i \in 1..Len(last.input) :
         toLowerCase(last.input[i].nim) = toLowerCase(last.query)
      THEN /\ last.found
           /\ last.index \in 0..(Len(last.input) - 1)
           /\ toLowerCase(last.input[last.index + 1].nim) = toLowerCase(last.query)
      ELSE ~last.found /\ last.index = 0 - 1

C20_Witness ==
  /\ last.op = "binary"
  /\ SortedAscending(last.input, "nim")
  /\ Len(last.input) = MaxSortLen
  /\ last.query = Str_A1
  /\ last.found
  /\ last.index = 2
  /\ last.input[3].nim = Str_a1
  /\ last.comparisons = 2


\* ========================================================= validation alone
\* sample field values: valid ones, and ones on either side of each rule
ValNims == { <<>>, Str_blank, Str_a1, Str_long }
ValNamas ==
  { <<>>, Str_a, Str_ab, <<" ", " ">>, Str_a1, [i \in 1..(NamaMaxLen + 1) |-> "a"] }
ValEmails == { <<>>, Str_mail, Str_nomail }
ValJurusans ==
  { Str_ab, Str_a, <<" ", " ">>, Str_a1, [i \in 1..(JurusanMaxLen + 1) |-> "a"] }
ValSemesters ==
  { SemesterMin * Scale, 7 * Scale, SemesterMax * Scale, 0, 15 * Scale,
    7 * Scale + 50, NaN }
ValIpks == { IpkMin * Scale, 350, IpkMax * Scale, 0 - Scale, 5 * Scale, NaN }

ValNoCall == [op |-> "none", data |-> <<>>, isValid |-> FALSE, errors |-> {}]

ValInit ==
  /\ \E nim \in ValNims : \E nama \in ValNamas : \E email \in ValEmails :
     \E jurusan \in ValJurusans : \E semester \in ValSemesters : \E ipk \in ValIpks :
       last = [ValNoCall EXCEPT
                 !.data = [nim |-> nim, nama |-> nama, email |-> email,
                           jurusan |-> jurusan, semester |-> semester, ipk |-> ipk]]
  /\ store = [cur |-> RawNull, bak |-> RawNull]
  /\ students = <<>>
  /\ queued = <<>>
  /\ isLoading = FALSE
  /\ lastSaved = NullTime
  /\ dirty = FALSE
  /\ nextId = 1
  /\ clock = 0
  /\ calls = 0
  /\ lastSave = NoSave

\* validateAllFields(data): isValid and the keys of errors
ValidateAll ==
  /\ last.op = "none"
  /\ last' = [op |-> "validate", data |-> last.data,
              isValid |-> validateAllFields(last.data),
              errors |-> {ValidationErrors(last.data)[i] :
                            i \in 1..Len(ValidationErrors(last.data))}]
  /\ UNCHANGED <<store, students, queued, isLoading, lastSaved, dirty, nextId, clock, calls, lastSave>>

ValNext == ValidateAll

SpecVal == ValInit /\ [][ValNext]_vars

\* the field constraints of the data model
LettersAndSpaces(v) == \A i \in 1..Len(v) : v[i] \in Letters \cup {" "}

FieldRule(k, v) ==
  CASE k = "nim" -> Len(v) >= 1 /\ Len(v) <= 50
    [] k = "nama" -> Len(v) >= 2 /\ Len(v) <= 100 /\ LettersAndSpaces(v)
    [] k = "email" -> RegexEmail(v)
    [] k = "jurusan" -> Len(v) >= 2 /\ LettersAndSpaces(v)
    [] k = "semester" -> v # NaN /\ v % Scale = 0 /\ v >= 1 * Scale /\ v <= 14 * Scale
    [] k = "ipk" -> v # NaN /\ v >= 0 /\ v <= 4 * Scale

RulesViolated(data) == {k \in ValidatedKeys : ~FieldRule(k, data[k])}

OnlySpaces(v) == \A i \in 1..Len(v) : v[i] = " "

\* the constraints the validators enforce: the data model's, with
\* whitespace-only text counted as empty and jurusan at most 50 characters
FieldRuleEnforced(k, v) ==
  /\ FieldRule(k, v)
  /\ (k \in {"nim", "nama", "jurusan"}) => ~OnlySpaces(v)
  /\ (k = "jurusan") => Len(v) <= 50

EnforcedViolated(data) == {k \in ValidatedKeys : ~FieldRuleEnforced(k, data[k])}

IpkOf(seq) == [i \in 1..Len(seq) |-> seq[i].ipk]

\* C22: bubbleSort stops after the first pass without a swap: on ipk values
\* [3.0, 2.0, 3.5] sorted asc it returns [2.0, 3.0, 3.5] with 3 comparisons,
\* and on an input of n >= 2 records already in the requested order it makes
\* exactly n-1 comparisons and 0 swaps.
C22_BubbleEarlyExit ==
  (last.op = "bubble") =>
    /\ (last.field = "ipk" /\ last.order = "asc"
          /\ IpkOf(last.input) = <<3 * Scale, 2 * Scale, 350>>) =>
         /\ IpkOf(last.sortedData) = <<2 * Scale, 3 * Scale, 350>>
         /\ last.comparisons = 3
         /\ last.swaps = 1
    /\ (Len(last.input) >= 2 /\ Monotonic(last.input, last.field, last.order)) =>
         /\ last.comparisons = Len(last.input) - 1
         /\ last.swaps = 0
         /\ last.sortedData = last.input

C22_Witness ==
  /\ last.op = "bubble"
  /\ last.field = "ipk"
  /\ last.order = "asc"
  /\ IpkOf(last.input) = <<3 * Scale, 2 * Scale, 350>>
  /\ last.comparisons = 3


\* records with equal sort keys stand in the output as they stood in the input
Stable(input, output, field) ==
  \A p \in 1..Len(output) : \A q \in (p + 1)..Len(output) :
    SortKeyOf(output[p], field) = SortKeyOf(output[q], field)
      => PositionIn(input, output[p]) < PositionIn(input, output[q])

\* C23 (as stated): bubbleSort, selectionSort, insertionSort and shellSort
\* each keep the input order of records with equal sort keys, for every input
\* and both orders.
C23_SimpleSortsStable ==
  (last.op \in {"bubble", "selection", "insertion", "shell"}) =>
    Stable(last.input, last.sortedData, last.field)

\* C23 (amended): bubbleSort and insertionSort keep the input order of records
\* with equal sort keys, for every input and both orders.
C23_BubbleInsertionStable ==
  (last.op \in {"bubble", "insertion"}) =>
    Stable(last.input, last.sortedData, last.field)

C23_Witness ==
  /\ last.op = "insertion"
  /\ last.order = "desc"
  /\ last.field = "ipk"
  /\ Len(last.input) = MaxSortLen
  /\ last.swaps >= 2
  /\ \E p \in 1..Len(last.sortedData) : \E q \in (p + 1)..Len(last.sortedData) :
       /\ last.sortedData[p].ipk = last.sortedData[q].ipk
       /\ last.sortedData[p].nim # last.sortedData[q].nim
       /\ PositionIn(last.input, last.sortedData[q])
            > PositionIn(last.input, last.sortedData[p]) + 1


\* ------------------------------------------------- claims on the searches
\* C24: compareSearchAlgorithms runs binarySearch on a copy sorted ascending
\* in the order binarySearch requires, so that whenever some record's field
\* equals the query ignoring case the binary result is found; the input is not
\* reordered and dataSize is its length.
C24_CompareSearchFindsPresent ==
  (last.op = "compareSearch") =>
    /\ SortedAscending(last.sortedData, last.field)
    /\ (\E i \in 1..Len(last.input) :
          toLowerCase(last.input[i][last.field]) = toLowerCase(last.query))
         => last.found
    /\ IsPermutation(last.sortedData, last.input)
    /\ students = last.input
    /\ last.dataSize = Len(last.input)


\* C29: sequentialSearchWithPattern returns the same records in the same
\* order as linearSearchAll, for every collection and pattern, the empty
\* pattern and a pattern longer than the field value included.
C29_PatternEqualsLinearAll ==
  /\ (last.op = "pattern") =>
       last.results = linearSearchAll(last.input, last.query, last.field).results
  /\ (last.op = "linearAll") =>
       last.results
         = sequentialSearchWithPattern(last.input, last.query, last.field).results
  /\ (last.op \in {"pattern", "linearAll"}) =>
       /\ (last.query = <<>>) => last.results = last.input
       /\ (\A i \in 1..Len(last.input) :
             Len(last.query) > Len(last.input[i][last.field]))
            => last.results = <<>>

C29_Witness ==
  /\ last.op = "pattern"
  /\ last.field = "email"
  /\ last.query = Str_mail
  /\ Len(last.input) = MaxSortLen
  /\ Len(last.results) = 2
  /\ last.results[1].id > 101
  /\ \E i \in 1..Len(last.input) : last.input[i].email = Str_mail1

\* floor(log2(n)) for n >= 1
RECURSIVE FloorLog2(_)
FloorLog2(n) == IF n <= 1 THEN 0 ELSE 1 + FloorLog2(n \div 2)

\* C30: binarySearch ends on every collection of n records, sorted or not,
\* every probe mid satisfies 0 <= mid < n, and comparisons is at most
\* floor(log2(n)) + 1; on the empty collection it makes no comparison and
\* reports not found.
C30_BinarySearchBounded ==
  (last.op = "binary") =>
    /\ \A i \in 1..Len(last.probes) :
         last.probes[i] >= 0 /\ last.probes[i] < Len(last.input)
    /\ last.comparisons = Len(last.probes)
    /\ IF Len(last.input) = 0
         THEN last.comparisons = 0 /\ ~last.found
         ELSE last.comparisons <= FloorLog2(Len(last.input)) + 1

C30_Witness ==
  /\ last.op = "binary"
  /\ Len(last.input) = MaxSortLen
  /\ ~SortedAscending(last.input, "nim")
  /\ ~last.found
  /\ last.comparisons = FloorLog2(MaxSortLen) + 1
  /\ \E i \in 1..Len(last.input) :
       toLowerCase(last.input[i].nim) = toLowerCase(last.query)


\* ------------------------------------------------ claims on initialisation
\* the manager has loaded and rendered, and no call has been made yet
Initialised == ~isLoading /\ ~dirty /\ last.op = "none"

\* C25 (as stated): when the manager initialises from a store whose current
\* slot holds a valid snapshot S, the auto-save effect runs once loading has
\* finished, so that afterwards the backup slot holds the raw contents of S
\* and the current slot holds a re-written snapshot with the data of S.
C25_InitRewritesSnapshot ==
  Initialised =>
    /\ lastSave.ran
    /\ (lastSave.prevCur.kind = "json") =>
         /\ store.bak = lastSave.prevCur
         /\ store.cur.kind = "json"
         /\ store.cur.doc.data = lastSave.prevCur.doc.data
         /\ store.cur.doc.timestamp = lastSave.timestamp

\* C25 (amended): the same when the store accepts both writes of that save;
\* when it rejects one, the current slot still holds S.
C25_InitRewritesSnapshotAccepted ==
  Initialised =>
    /\ lastSave.ran
    /\ students = queued
    /\ (lastSave.prevCur.kind = "json" /\ lastSave.success) =>
         /\ students = lastSave.prevCur.doc.data
         /\ store.bak = lastSave.prevCur
         /\ store.cur.kind = "json"
         /\ store.cur.doc.data = lastSave.prevCur.doc.data
         /\ store.cur.doc.timestamp = lastSave.timestamp
    /\ (lastSave.prevCur.kind = "json" /\ ~lastSave.success) =>
         store.cur = lastSave.prevCur

C25_Witness ==
  /\ Initialised
  /\ lastSave.success
  /\ lastSave.prevCur.kind = "json"
  /\ Len(lastSave.prevCur.doc.data) = 1
  /\ store.bak = lastSave.prevCur
  /\ store.cur.doc.timestamp = lastSave.timestamp
  /\ students = lastSave.prevCur.doc.data

\* C26: a save(collection) call that returns failure leaves the current slot
\* holding exactly what it held before the call, in every store state and
\* whichever of its two writes the store rejects.
C26_FailedSaveKeepsCurrent ==
  (last.op = "save" /\ ~last.ok) =>
    /\ last.fault \in {"backup", "current"}
    /\ store.cur = last.before.cur
    /\ (last.fault = "backup") => store.bak = last.before.bak

C26_Witness ==
  /\ last.op = "save"
  /\ ~last.ok
  /\ last.fault = "current"
  /\ last.before.cur.kind = "json"
  /\ last.before.bak.kind = "garbage"
  /\ store.bak = last.before.cur
  /\ store.cur = last.before.cur


\* ------------------------------------ the manager without foreign records
\* the page opens on a store without a snapshot and nothing is imported
OwnInit == Init /\ store.cur.kind # "json"

OwnNext == Mount \/ Render \/ Add \/ Update \/ Delete \/ DeleteMany

SpecOwn == OwnInit /\ [][OwnNext]_vars

AllUpperCase(coll) == \A i \in 1..Len(coll) : coll[i].nim = toUpperCase(coll[i].nim)

\* C27: in every state reached from the empty collection by add, update,
\* delete and deleteMultiple only, every record's nim equals its own
\* upper-case conversion (in the state, in the rendered collection and in the
\* saved snapshot).
C27_NimUpperCase ==
  /\ AllUpperCase(queued)
  /\ AllUpperCase(students)
  /\ (store.cur.kind = "json") => AllUpperCase(store.cur.doc.data)

C27_Witness ==
  /\ last.op = "update"
  /\ last.ok
  /\ "nim" \in DOMAIN last.data
  /\ last.data.nim = Str_a1
  /\ Len(queued) = 1
  /\ queued[1].nim = Str_A1
  /\ last.before[1].nim # Str_A1
  /\ ~dirty
  /\ store.cur.kind = "json"
  /\ store.cur.doc.data = queued

\* C28: add, update, delete and deleteMultiple leave the records they do not
\* target unchanged and in their order: add extends the sequence at the end,
\* update keeps the length and the place of every record, delete and
\* deleteMultiple remove the records with the given ids and no other.
C28_Frame ==
  /\ (last.op = "add" /\ last.ok) =>
       /\ Len(queued) = Len(last.before) + 1
       /\ SubSeq(queued, 1, Len(last.before)) = last.before
  /\ (last.op = "update" /\ last.ok) =>
       /\ Len(queued) = Len(last.before)
       /\ \A i \in 1..Len(last.before) :
            IF last.before[i].id = last.id
              THEN \A k \in (DOMAIN queued[i]) \ ((DOMAIN last.data) \cup {"nim"}) :
                     queued[i][k] = last.before[i][k]
              ELSE queued[i] = last.before[i]
  /\ (last.op = "delete" /\ last.ok) =>
       queued = SelectSeq(last.before, LAMBDA s : s.id # last.id)
  /\ (last.op = "deleteMultiple" /\ last.ok) =>
       queued = SelectSeq(last.before, LAMBDA s : s.id \notin last.ids)
  /\ (last.op \in {"add", "update", "delete"} /\ ~last.ok) =>
       queued = last.before

C28_Witness ==
  /\ last.op = "update"
  /\ last.ok
  /\ Len(last.before) = 2
  /\ last.before[1].id = last.id
  /\ queued[1] # last.before[1]
  /\ queued[2] = last.before[2]

====
